---- MODULE Spec2Model ----
(***************************************************************************)
(* The node-dependency processing engine of the idea-exploration agent:    *)
(* IdeaAgent (batch mode) and WebSocketIdeaAgent (suspend/resume mode) of  *)
(* backend/app/agents/idea_agent.py, with the data model of                *)
(* backend/app/models/tree.py and the session endpoint of                  *)
(* backend/app/main.py; the round driver with graph validation             *)
(* (core/graphs/base.py); the fallback chain and content analysis          *)
(* (core/handlers); and the file cache (caching/base.py).                  *)
(***************************************************************************)
EXTENDS Integers, Sequences, FiniteSets, TLC

\* Largest number of nodes handed to the scheduler in one session.
MaxNodes == 2

\* Python's None.
Null == "null"

\* The answers a user may type.
Inputs == {"u1", "u2"}

Modes == {"batch", "ws"}

\* The two graphs of an agent: information needs and solution exploration.
GraphNames == {"key", "exp"}

\* The flows of control that process nodes: the scheduler loop of
\* process_goal and, in suspend/resume mode, the endpoint running the fast
\* path of set_user_input.
Tasks == {"sched", "user"}

\* models/tree.py NodeState
PENDING == "pending"
SEARCHING == "searching"
NEEDS_BREAKDOWN == "needs_breakdown"
NEEDS_ESTIMATE == "needs_estimate"
CALCULATING == "calculating"
COMPLETE == "complete"
BLOCKED == "blocked"

NodeState ==
    {PENDING, SEARCHING, NEEDS_BREAKDOWN, NEEDS_ESTIMATE, CALCULATING, COMPLETE, BLOCKED}

\* models/tree.py NodeType and GatheringMethod
GATHER == "gather"
CALCULATE == "calculate"
WEB_SEARCH == "web_search"
ASK_USER == "ask_user"

VARIABLES
    mode,               \* which agent class runs the session
    conn,               \* the session's websocket: open, broken (peer gone), closed (unregistered), none (batch)
    graphs,             \* the processing graph built for each of the two graphs (<<>>: not built)
    key_info_graph,     \* self.key_info_graph is set (refers to graphs.key)
    exploration_graph,  \* self.exploration_graph is set (refers to graphs.exp)
    gathered_facts,     \* self.gathered_facts: question -> value (Null: no entry)
    pc,                 \* position of each task
    tg,                 \* the graph each task works on
    ready,              \* the nodes each task still has to process in its current pass
    cur,                \* the node each task is processing (0: none)
    failed_attempt,     \* the FailedSearchAttempt each task last got from the fallback chain
    ret,                \* how the set_user_input call that has just returned ended (none: no call)
    max_depth,          \* self.max_depth: the rounds a driver may run
    depth,              \* the round a driver is in
    rpc,                \* position of the round driver (idle: the driver is not looked at)
    all_processed_nodes,\* the nodes the driver has accumulated over its rounds
    response,           \* the nodes the generation models returned in this round
    n_processed,        \* how many nodes the driver has handed to _process_graph
    generate_call,      \* the generate_graph calls of the driver: how many, and the arguments of the last
    handler,            \* a run of handle_failed_search: its position, locals and collaborator calls
    analysis,           \* a run of search_and_analyze: its position and the analysis attempts made for each page
    fs,                 \* the files of a cache: the lock path's inode, the flocks held, the cache file's keys
    procs               \* the FileCache instances on one cache file, with the position of each one's set call

\* The state of the round driver (_gather_key_info, _explore_solutions).
roundvars ==
    <<max_depth, depth, rpc, all_processed_nodes, response, n_processed, generate_call>>

\* The state of node processing.
agentvars ==
    <<mode, conn, graphs, key_info_graph, exploration_graph,
      pc, tg, ready, cur, failed_attempt, ret>>

vars ==
    <<mode, conn, graphs, key_info_graph, exploration_graph, gathered_facts,
      pc, tg, ready, cur, failed_attempt, ret,
      max_depth, depth, rpc, all_processed_nodes, response, n_processed,
      generate_call, handler, analysis, fs, procs>>

\* The state of the leaf components: the fallback chain, content analysis,
\* the cache files.
leafvars == <<handler, analysis, fs, procs>>

\* handle_failed_search is not running.
HandlerIdle ==
    [pc |-> "idle", failed_searches |-> << >>, new_nodes |-> << >>, i |-> 0,
     search_calls |-> << >>, all_results |-> << >>, all_failed_searches |-> << >>,
     estimate_calls |-> << >>, was_successful |-> "null"]

\* search_and_analyze is not running.
AnalysisIdle == [pc |-> "idle", pages |-> << >>, page |-> 0]

\* No cache file is looked at.
NoFiles == [lock_path |-> 0, flock |-> {}, cache_file |-> {}, inodes |-> 0, stored |-> {}]

NoProcs == << >>

\* No generate_graph call has been made by the round driver.
NoGenerateCall == [calls |-> 0, known_facts |-> << >>, explored_nodes |-> << >>]

----------------------------------------------------------------------------
\* Graph specifications the generation collaborator may return.

\* input_node_ids of a calculate node at position i with dependencies deps:
\* its dependencies (the first node when it has none), the first node, or an
\* id no node carries.
InputChoices(i, deps) ==
    {IF deps = {} THEN {1} ELSE deps, {1}, {MaxNodes + 1}}

\* The node specifications validation accepts at position i of a graph.
\* Validation does not look at the gathering_method of a calculate node.
InfoNodeSpec(i) ==
    UNION {
        {[node_type |-> GATHER, gathering_method |-> m,
          depends_on_ids |-> d, input_node_ids |-> {}] :
            m \in {WEB_SEARCH, ASK_USER}}
        \cup
        {[node_type |-> CALCULATE, gathering_method |-> Null,
          depends_on_ids |-> d, input_node_ids |-> inp] :
            inp \in InputChoices(i, d)}
        \cup
        {[node_type |-> CALCULATE, gathering_method |-> ASK_USER,
          depends_on_ids |-> d,
          input_node_ids |-> IF d = {} THEN {1} ELSE d]}
        : d \in SUBSET (1..(i - 1))}

RECURSIVE InitialInfoGraph(_)
\* The validated graph specifications of n nodes.
InitialInfoGraph(n) ==
    IF n = 0 THEN {<< >>}
    ELSE {Append(g, s) : g \in InitialInfoGraph(n - 1), s \in InfoNodeSpec(n)}

\* tree.py ProcessingNode as built by _create_processing_graph.  outcome is
\* not a field of the class: it keeps what the collaborator calls made for
\* the node returned, for the properties that compare runs.
ProcessingNode(gname, i, s) ==
    [id |-> <<gname, i>>,
     question |-> i,
     node_type |-> s.node_type,
     state |-> PENDING,
     depends_on_ids |-> s.depends_on_ids,
     gathering_method |-> s.gathering_method,
     input_node_ids |-> s.input_node_ids,
     search_results |-> Null,
     estimate |-> Null,
     calculation_result |-> Null,
     value |-> Null,
     value_source |-> Null,
     breakdown_attempt |-> Null,
     outcome |-> Null]

_create_processing_graph(gname, spec) ==
    [i \in 1..Len(spec) |-> ProcessingNode(gname, i, spec[i])]

----------------------------------------------------------------------------
\* Pure helpers of the agent.

\* Mutant of IsReady: the dependencies are not looked at.
IsReady_nodeps(g, i) ==
    g[i].state = PENDING

\* The test _get_ready_nodes makes of node i of graph g.
IsReady(g, i) ==
    /\ g[i].state = PENDING
    /\ \A dep_id \in g[i].depends_on_ids : g[dep_id].state = COMPLETE

RECURSIVE ReadyFrom(_, _)
\* The ready nodes of graph g at positions i.., in list order.
ReadyFrom(g, i) ==
    IF i > Len(g) THEN << >>
    ELSE IF IsReady(g, i)
         THEN <<i>> \o ReadyFrom(g, i + 1)
         ELSE ReadyFrom(g, i + 1)

\* Mutant of _get_ready_nodes: only nodes without dependencies are returned.
_get_ready_nodes_roots(g) ==
    SelectSeq(ReadyFrom(g, 1), LAMBDA i : g[i].depends_on_ids = {})

_get_ready_nodes(g) == ReadyFrom(g, 1)

\* Mutant of _has_in_progress_nodes: Blocked counts as in progress.
_has_in_progress_nodes_blocked(g) ==
    \E i \in 1..Len(g) :
        g[i].state \in {SEARCHING, CALCULATING, NEEDS_BREAKDOWN, BLOCKED}

_has_in_progress_nodes(g) ==
    \E i \in 1..Len(g) : g[i].state \in {SEARCHING, CALCULATING, NEEDS_BREAKDOWN}

_has_active_nodes(g) ==
    \E i \in 1..Len(g) :
        g[i].state \in {SEARCHING, CALCULATING, NEEDS_BREAKDOWN, BLOCKED}

\* "; ".join(facts) over the facts of a result list: the node's own results,
\* the aggregated sub-results, or the empty list.
JoinFacts(results) ==
    CASE results = "own" -> "facts"
      [] results = "sub" -> "subfacts"
      [] OTHER -> ""

\* No FailedSearchAttempt.
NoAttempt == [breakdown_attempt |-> Null, search_results |-> Null, estimate |-> Null]

\* Mutant of handle_failed_search: was_successful is left as generated.
handle_failed_search_unmarked(all_results) ==
    IF all_results # "empty"
    THEN [breakdown_attempt |-> "unsuccessful", search_results |-> all_results,
          estimate |-> Null]
    ELSE [breakdown_attempt |-> "unsuccessful", search_results |-> "empty",
          estimate |-> "estimate"]

\* FailedSearchBreakdownHandler.handle_failed_search once its sub-searches
\* have run and found all_results: the attempt is marked and returned with
\* the results, or with the estimate of the Estimate collaborator.
handle_failed_search(all_results) ==
    IF all_results # "empty"
    THEN [breakdown_attempt |-> "successful", search_results |-> all_results,
          estimate |-> Null]
    ELSE [breakdown_attempt |-> "unsuccessful", search_results |-> "empty",
          estimate |-> "estimate"]

\* estimate.value
EstimateValue(estimate) == "estimate_value"

\* str(result.result): the calculation's result object, or None.
Str(result) ==
    IF result = Null THEN "None" ELSE "42"

----------------------------------------------------------------------------
\* Bookkeeping shared by the actions.

\* No set_user_input call has just returned.
NoCall == "none"

\* The ids a caller may pass to set_user_input: the ids nodes can carry, and
\* one that no node carries.
NodeIds ==
    {<<gname, i>> : gname \in GraphNames, i \in 1..MaxNodes}
        \cup {<<"exp", MaxNodes + 1>>}

\* The node task t is processing, and the graphs with that node replaced.
Node(t) == graphs[tg[t]][cur[t]]

Upd(t, n) == [graphs EXCEPT ![tg[t]][cur[t]] = n]

\* websocket.send_json on a connection whose peer is gone may raise.
SendMayFail == mode = "ws" /\ conn = "broken"

\* _send_node_value_update iterates over node.search_results to build its
\* message: a TypeError when they are None.
ValueUpdateRaises(n) == n.search_results = Null

\* What a node-processing step leaves alone.  The endpoint dies with its
\* fast path: main.py unregisters the connection on the way out.
NodeFrame(t) ==
    /\ UNCHANGED <<mode, key_info_graph, exploration_graph, tg, cur, failed_attempt>>
    /\ ret' = NoCall
    /\ UNCHANGED <<roundvars, leafvars>>
    /\ conn' = IF t = "user" /\ pc'[t] = "crashed" THEN "closed" ELSE conn

\* The step continues inside _process_node at position label.
Goto(t, G, label) ==
    /\ graphs' = G
    /\ pc' = [pc EXCEPT ![t] = label]
    /\ ready' = ready

\* _process_node returns to the loop that called it.  The scheduler loop of
\* suspend/resume mode leaves its pass when the node is Blocked.
Return(t, G) ==
    /\ graphs' = G
    /\ pc' = [pc EXCEPT ![t] = "next"]
    /\ ready' = IF t = "sched" /\ mode = "ws" /\ G[tg[t]][cur[t]].state = BLOCKED
                THEN [ready EXCEPT ![t] = << >>]
                ELSE ready

\* Mutant of Except: the node is put back to Pending, to be tried again.
Except_retry(t, n) ==
    LET G == Upd(t, [n EXCEPT !.state = PENDING]) IN
    \/ Return(t, G)
    \/ /\ SendMayFail
       /\ graphs' = G
       /\ pc' = [pc EXCEPT ![t] = "crashed"]
       /\ ready' = ready

\* The except clause of _process_node, entered with the node as n: the node
\* is forced to Blocked; in suspend/resume mode the handler's own
\* notification may raise in turn, which ends the task.
Except(t, n) ==
    LET G == Upd(t, [n EXCEPT !.state = BLOCKED]) IN
    \/ Return(t, G)
    \/ /\ SendMayFail
       /\ graphs' = G
       /\ pc' = [pc EXCEPT ![t] = "crashed"]
       /\ ready' = ready

\* WebSocketIdeaAgent._process_node from the value update of the node, now
\* m, to its end, where it leaves the node as final.
ValueUpdate(t, m, final) ==
    IF ValueUpdateRaises(m)
    THEN Except(t, m)
    ELSE \/ Return(t, Upd(t, final))
         \/ SendMayFail /\ Except(t, m)

----------------------------------------------------------------------------
\* process_goal

\* The agent and the round driver are not looked at.
AgentIdle ==
    /\ mode = "batch"
    /\ conn = "none"
    /\ graphs = [gname \in GraphNames |-> << >>]
    /\ key_info_graph = FALSE
    /\ exploration_graph = FALSE
    /\ gathered_facts = [q \in {"q"} |-> Null]
    /\ pc = [t \in Tasks |-> "idle"]
    /\ tg = [t \in Tasks |-> "key"]
    /\ ready = [t \in Tasks |-> << >>]
    /\ cur = [t \in Tasks |-> 0]
    /\ failed_attempt = [t \in Tasks |-> NoAttempt]
    /\ ret = NoCall

DriverIdle ==
    /\ max_depth = 1
    /\ depth = 0
    /\ rpc = "idle"
    /\ all_processed_nodes = << >>
    /\ response = << >>
    /\ n_processed = 0
    /\ generate_call = NoGenerateCall

Init ==
    /\ mode \in Modes
    /\ conn = IF mode = "ws" THEN "open" ELSE "none"
    /\ graphs = [gname \in GraphNames |-> << >>]
    /\ key_info_graph = FALSE
    /\ exploration_graph = FALSE
    /\ gathered_facts = [q \in 1..MaxNodes |-> Null]
    /\ pc = [t \in Tasks |-> IF t = "sched" THEN "start" ELSE "idle"]
    /\ tg = [t \in Tasks |-> "key"]
    /\ ready = [t \in Tasks |-> << >>]
    /\ cur = [t \in Tasks |-> 0]
    /\ failed_attempt = [t \in Tasks |-> NoAttempt]
    /\ ret = NoCall
    /\ max_depth = 1
    /\ depth = 0
    /\ rpc = "idle"
    /\ all_processed_nodes = << >>
    /\ response = << >>
    /\ n_processed = 0
    /\ generate_call = NoGenerateCall
    /\ handler = HandlerIdle
    /\ analysis = AnalysisIdle
    /\ fs = NoFiles
    /\ procs = NoProcs

\* The generation collaborator returns the information-needs graph, or
\* generation (the model call, validation) raises.  Batch mode converts the
\* graph and schedules it.  Suspend/resume mode converts it into a local,
\* announces it and drops it: the agent keeps no processing graph of it.
GenerateKeyInfo ==
    /\ pc["sched"] = "start"
    /\ mode = "ws" => conn = "open"
    /\ \/ /\ pc' = [pc EXCEPT !["sched"] = "failed"]
          /\ UNCHANGED graphs
       \/ /\ mode = "batch"
          /\ \E n \in 1..MaxNodes : \E spec \in InitialInfoGraph(n) :
               graphs' = [graphs EXCEPT !["key"] = _create_processing_graph("key", spec)]
          /\ pc' = [pc EXCEPT !["sched"] = "sched"]
       \/ /\ mode = "ws"
          /\ UNCHANGED graphs
          /\ \/ pc' = [pc EXCEPT !["sched"] = "gen_exp"]
             \/ SendMayFail /\ pc' = [pc EXCEPT !["sched"] = "failed"]
    /\ tg' = [tg EXCEPT !["sched"] = "key"]
    /\ ret' = NoCall
    /\ UNCHANGED <<roundvars, leafvars>>
    /\ UNCHANGED <<mode, conn, key_info_graph, exploration_graph, gathered_facts,
                   ready, cur, failed_attempt>>

\* The nodes the generation collaborator may still return for the
\* solution-exploration graph.
Budget == IF mode = "batch" THEN MaxNodes - Len(graphs["key"]) ELSE MaxNodes

\* Mutant of GenerateExploration: the generation call empties the facts.
GenerateExploration_forgetful ==
    /\ pc["sched"] = "gen_exp"
    /\ pc' = [pc EXCEPT !["sched"] = "failed"]
    /\ gathered_facts' = [q \in DOMAIN gathered_facts |-> Null]
    /\ ret' = NoCall
    /\ UNCHANGED <<roundvars, leafvars>>
    /\ UNCHANGED <<mode, conn, graphs, key_info_graph, exploration_graph, tg,
                   ready, cur, failed_attempt>>

GenerateExploration ==
    /\ pc["sched"] = "gen_exp"
    /\ \/ /\ pc' = [pc EXCEPT !["sched"] = "failed"]
          /\ UNCHANGED <<graphs, tg>>
       \/ \E n \in 1..Budget : \E spec \in InitialInfoGraph(n) :
            /\ graphs' = [graphs EXCEPT !["exp"] = _create_processing_graph("exp", spec)]
            /\ tg' = [tg EXCEPT !["sched"] = "exp"]
            /\ \/ pc' = [pc EXCEPT !["sched"] = "sched"]
               \/ SendMayFail /\ pc' = [pc EXCEPT !["sched"] = "failed"]
    /\ ret' = NoCall
    /\ UNCHANGED <<roundvars, leafvars>>
    /\ UNCHANGED <<mode, conn, key_info_graph, exploration_graph, gathered_facts,
                   ready, cur, failed_attempt>>

\* The scheduler loop has ended: batch mode stores the graph on the agent
\* and goes on to the next phase, suspend/resume mode returns.
FinishGraph ==
    /\ pc["sched"] = "graph_done"
    /\ IF mode = "batch"
       THEN /\ key_info_graph' = (key_info_graph \/ tg["sched"] = "key")
            /\ exploration_graph' = (exploration_graph \/ tg["sched"] = "exp")
            /\ pc' = [pc EXCEPT !["sched"] =
                         IF tg["sched"] = "key" THEN "gen_exp" ELSE "done"]
       ELSE /\ UNCHANGED <<key_info_graph, exploration_graph>>
            /\ pc' = [pc EXCEPT !["sched"] = "done"]
    /\ ret' = NoCall
    /\ UNCHANGED <<roundvars, leafvars>>
    /\ UNCHANGED <<mode, conn, graphs, gathered_facts, tg, ready, cur, failed_attempt>>

----------------------------------------------------------------------------
\* _process_graph

\* Top of the while loop: derive the ready set; leave the loop at fixpoint.
GetReady ==
    /\ pc["sched"] = "sched"
    /\ LET g == graphs[tg["sched"]]
           ready_nodes == _get_ready_nodes(g)
       IN  IF ready_nodes # << >>
           THEN /\ ready' = [ready EXCEPT !["sched"] = ready_nodes]
                /\ pc' = [pc EXCEPT !["sched"] = "next"]
           ELSE /\ ready' = ready
                /\ pc' = [pc EXCEPT !["sched"] =
                             IF mode = "batch"
                             THEN IF _has_in_progress_nodes(g)
                                  THEN "sched" ELSE "graph_done"
                             ELSE IF _has_active_nodes(g)
                                  THEN "sleeping" ELSE "graph_done"]
    /\ ret' = NoCall
    /\ UNCHANGED <<roundvars, leafvars>>
    /\ UNCHANGED <<mode, conn, graphs, key_info_graph, exploration_graph,
                   gathered_facts, tg, cur, failed_attempt>>

\* asyncio.sleep(0.1) returns.
Sleep ==
    /\ pc["sched"] = "sleeping"
    /\ pc' = [pc EXCEPT !["sched"] = "sched"]
    /\ ret' = NoCall
    /\ UNCHANGED <<roundvars, leafvars>>
    /\ UNCHANGED <<mode, conn, graphs, key_info_graph, exploration_graph,
                   gathered_facts, tg, ready, cur, failed_attempt>>

\* Mutant of NextNode: the loop does not advance.
NextNode_again(t) ==
    /\ pc[t] = "next"
    /\ ready[t] # << >>
    /\ pc' = [pc EXCEPT ![t] = "node_start"]
    /\ cur' = [cur EXCEPT ![t] = Head(ready[t])]
    /\ ready' = ready
    /\ failed_attempt' = [failed_attempt EXCEPT ![t] = NoAttempt]
    /\ ret' = NoCall
    /\ UNCHANGED <<roundvars, leafvars>>
    /\ UNCHANGED <<mode, conn, graphs, key_info_graph, exploration_graph,
                   gathered_facts, tg>>

\* The for loop over the nodes to process takes its next node, or ends.
NextNode(t) ==
    /\ pc[t] = "next"
    /\ IF ready[t] = << >>
       THEN /\ pc' = [pc EXCEPT ![t] = IF t = "sched" THEN "sched" ELSE "idle"]
            /\ cur' = [cur EXCEPT ![t] = 0]
            /\ ready' = ready
       ELSE /\ pc' = [pc EXCEPT ![t] = "node_start"]
            /\ cur' = [cur EXCEPT ![t] = Head(ready[t])]
            /\ ready' = [ready EXCEPT ![t] = Tail(ready[t])]
    /\ failed_attempt' = [failed_attempt EXCEPT ![t] = NoAttempt]
    /\ ret' = NoCall
    /\ UNCHANGED <<roundvars, leafvars>>
    /\ UNCHANGED <<mode, conn, graphs, key_info_graph, exploration_graph,
                   gathered_facts, tg>>

----------------------------------------------------------------------------
\* _process_node, of IdeaAgent (with _process_gather_node and
\* _process_calculate_node) and of WebSocketIdeaAgent.

\* Entry of _process_node up to the first collaborator call.
StartNode(t) ==
    /\ pc[t] = "node_start"
    /\ LET n == Node(t) IN
       IF mode = "batch"
       THEN IF n.node_type = GATHER
            THEN IF n.gathering_method = WEB_SEARCH
                 THEN Goto(t, Upd(t, [n EXCEPT !.state = SEARCHING]), "searching")
                 ELSE IF n.gathering_method = ASK_USER
                      THEN Goto(t, Upd(t, [n EXCEPT !.state = BLOCKED]), "finish")
                      ELSE Goto(t, graphs, "finish")
            ELSE Goto(t, Upd(t, [n EXCEPT !.state = CALCULATING]), "calculating")
       ELSE \/ IF n.node_type = GATHER
               THEN IF n.gathering_method = WEB_SEARCH
                    THEN Goto(t, Upd(t, [n EXCEPT !.state = SEARCHING]), "searching")
                    ELSE Return(t, Upd(t, [n EXCEPT !.state = COMPLETE]))
               ELSE IF n.gathering_method = ASK_USER
                    THEN Return(t, Upd(t, [n EXCEPT !.state = BLOCKED]))
                    ELSE Goto(t, Upd(t, [n EXCEPT !.state = CALCULATING]), "calculating")
            \/ SendMayFail /\ Except(t, n)
    /\ UNCHANGED gathered_facts
    /\ NodeFrame(t)

\* search_handler.search_and_analyze returns results, returns nothing, or
\* raises.
SearchReturns(t) ==
    /\ pc[t] = "searching"
    /\ LET n == Node(t)
           found == [n EXCEPT !.value = JoinFacts("own"),
                              !.value_source = "search",
                              !.search_results = "own",
                              !.outcome = "found"]
           failed == [n EXCEPT !.state = NEEDS_BREAKDOWN,
                               !.outcome = "empty"]
       IN  \/ IF mode = "batch"
              THEN Goto(t, Upd(t, found), "finish")
              ELSE ValueUpdate(t, found, [found EXCEPT !.state = COMPLETE])
           \/ \/ Goto(t, Upd(t, failed), "breakdown")
              \/ SendMayFail /\ Except(t, failed)
           \/ Except(t, [n EXCEPT !.outcome = "search_raised"])
    /\ UNCHANGED gathered_facts
    /\ NodeFrame(t)

\* Mutant of BreakdownReturns: a sub-node of the breakdown is added to the
\* graph.
BreakdownReturns_scheduling(t) ==
    /\ pc[t] = "breakdown"
    /\ failed_attempt' = [failed_attempt EXCEPT ![t] = handle_failed_search("sub")]
    /\ Goto(t, [graphs EXCEPT ![tg[t]] =
                    Append(@, ProcessingNode(tg[t], Len(@) + 1,
                                  [node_type |-> GATHER, gathering_method |-> WEB_SEARCH,
                                   depends_on_ids |-> {}, input_node_ids |-> {}]))],
            "finish")
    /\ UNCHANGED <<mode, conn, key_info_graph, exploration_graph, tg, cur, gathered_facts>>
    /\ ret' = NoCall
    /\ UNCHANGED <<roundvars, leafvars>>

\* failed_search_handler.handle_failed_search runs (all_results: what its
\* sub-searches found) and returns, or raises; the node takes the sub-search
\* results or the estimate.
BreakdownReturns(t) ==
    /\ pc[t] = "breakdown"
    /\ \/ \E all_results \in {"sub", "empty"} :
            LET attempt == handle_failed_search(all_results)
                n == [Node(t) EXCEPT !.outcome =
                         IF attempt.estimate = Null THEN "sub" ELSE "estimate"]
                recorded == IF mode = "batch"
                            THEN [n EXCEPT !.breakdown_attempt =
                                               attempt.breakdown_attempt]
                            ELSE n
                broken == [recorded EXCEPT
                              !.value = JoinFacts(attempt.search_results),
                              !.value_source = "search",
                              !.search_results = attempt.search_results]
                estimated == [recorded EXCEPT
                              !.estimate = attempt.estimate,
                              !.value = EstimateValue(attempt.estimate),
                              !.value_source = "estimate"]
            IN  /\ failed_attempt' = [failed_attempt EXCEPT ![t] = attempt]
                /\ IF attempt.search_results # "empty"
                   THEN IF mode = "batch"
                        THEN Goto(t, Upd(t, broken), "finish")
                        ELSE \/ ValueUpdate(t, broken, [broken EXCEPT !.state = COMPLETE])
                             \/ SendMayFail /\ Except(t, n)
                   ELSE IF mode = "batch"
                        THEN Goto(t, Upd(t, estimated), "extract")
                        ELSE \/ ValueUpdate(t, estimated, estimated)
                             \/ SendMayFail /\ Except(t, n)
       \/ /\ failed_attempt' = failed_attempt
          /\ Except(t, [Node(t) EXCEPT !.outcome = "breakdown_raised"])
    /\ UNCHANGED <<mode, key_info_graph, exploration_graph, tg, cur, gathered_facts>>
    /\ ret' = NoCall
    /\ UNCHANGED <<roundvars, leafvars>>
    /\ conn' = IF t = "user" /\ pc'[t] = "crashed" THEN "closed" ELSE conn

\* _process_gather_node after its estimate branch: the value is extracted
\* from results, which is the empty list.
ExtractValue(t) ==
    /\ pc[t] = "extract"
    /\ LET n == Node(t) IN
       Goto(t, Upd(t, [n EXCEPT !.value = JoinFacts("empty"),
                                !.value_source = "search",
                                !.search_results = "empty"]), "finish")
    /\ UNCHANGED gathered_facts
    /\ NodeFrame(t)

\* The inputs are looked up; generate_calculation returns or raises;
\* execute_calculation returns a result, or None with a warning.
CalculationReturns(t) ==
    /\ pc[t] = "calculating"
    /\ LET n == Node(t)
           calculated(result) == [n EXCEPT !.value = Str(result),
                                           !.value_source = "calculation",
                                           !.calculation_result = result,
                                           !.outcome = IF result = Null
                                                       THEN "no_result"
                                                       ELSE "result"]
       IN  IF \E input_id \in n.input_node_ids : input_id \notin 1..Len(graphs[tg[t]])
           THEN Except(t, n)
           ELSE \/ \E result \in {"result", Null} :
                      IF mode = "batch"
                      THEN Goto(t, Upd(t, calculated(result)), "finish")
                      ELSE ValueUpdate(t, calculated(result),
                                       [calculated(result) EXCEPT !.state = COMPLETE])
                \/ Except(t, [n EXCEPT !.outcome = "calculation_raised"])
    /\ UNCHANGED gathered_facts
    /\ NodeFrame(t)

\* Mutant of FinishNode: the state is left as it is.
FinishNode_stateless(t) ==
    /\ pc[t] = "finish"
    /\ LET n == Node(t) IN
       /\ gathered_facts' = IF n.value # Null
                            THEN [gathered_facts EXCEPT ![n.question] = n.value]
                            ELSE gathered_facts
       /\ Return(t, graphs)
    /\ NodeFrame(t)

\* Tail of IdeaAgent._process_node: fold the value into the facts, complete.
FinishNode(t) ==
    /\ pc[t] = "finish"
    /\ LET n == Node(t) IN
       /\ gathered_facts' = IF n.value # Null
                            THEN [gathered_facts EXCEPT ![n.question] = n.value]
                            ELSE gathered_facts
       /\ Return(t, Upd(t, [n EXCEPT !.state = COMPLETE]))
    /\ NodeFrame(t)

----------------------------------------------------------------------------
\* set_user_input, and the session's connection.

\* The agent's known graph that holds a node with this id: the
\* information-needs graph first.
GraphOf(node_id) ==
    IF key_info_graph /\ \E i \in 1..Len(graphs["key"]) : graphs["key"][i].id = node_id
    THEN "key"
    ELSE IF exploration_graph
            /\ \E i \in 1..Len(graphs["exp"]) : graphs["exp"][i].id = node_id
         THEN "exp"
         ELSE Null

IndexOf(gname, node_id) ==
    CHOOSE i \in 1..Len(graphs[gname]) : graphs[gname][i].id = node_id

RECURSIVE DependentsFrom(_, _, _)
\* The Pending nodes of g at positions j.. that depend on node i, in order.
DependentsFrom(g, i, j) ==
    IF j > Len(g) THEN << >>
    ELSE IF i \in g[j].depends_on_ids /\ g[j].state = PENDING
         THEN <<j>> \o DependentsFrom(g, i, j + 1)
         ELSE DependentsFrom(g, i, j + 1)

\* Mutant of SetUserInput: suspend/resume mode finds the node in the graph
\* it is processing and its value update does not raise, so that the fast
\* path runs.
SetUserInput_resuming(node_id, user_input) ==
    /\ mode = "ws"
    /\ conn = "open"
    /\ pc["user"] = "idle"
    /\ \E i \in 1..Len(graphs["exp"]) :
          LET n == graphs["exp"][i] IN
          /\ n.id = node_id
          /\ n.state = BLOCKED
          /\ n.gathering_method = ASK_USER
          /\ graphs' = [graphs EXCEPT !["exp"][i] =
                           [n EXCEPT !.value = user_input, !.value_source = "user",
                                     !.state = COMPLETE]]
          /\ gathered_facts' = [gathered_facts EXCEPT ![n.question] = user_input]
          /\ ready' = [ready EXCEPT !["user"] = DependentsFrom(graphs["exp"], i, 1)]
    /\ ret' = "ok"
    /\ pc' = [pc EXCEPT !["user"] = "next"]
    /\ tg' = [tg EXCEPT !["user"] = "exp"]
    /\ UNCHANGED <<mode, conn, key_info_graph, exploration_graph, cur, failed_attempt>>
    /\ UNCHANGED <<roundvars, leafvars>>

\* A caller runs set_user_input(node_id, user_input).  Batch mode is
\* synchronous: the call comes when process_goal is not running.  In
\* suspend/resume mode the endpoint runs it on a message of the client; a
\* raise ends the endpoint, a success starts the fast path over the
\* dependents.  Results: ok, or the error raised: not_found and
\* invalid_state (the two ValueErrors), error (any other).
SetUserInput(node_id, user_input) ==
    /\ IF mode = "batch"
       THEN pc["sched"] \in {"start", "done", "failed"}
       ELSE conn = "open" /\ pc["user"] = "idle"
    /\ LET gname == GraphOf(node_id) IN
       IF gname = Null
       THEN /\ ret' = "not_found"
            /\ conn' = IF mode = "ws" THEN "closed" ELSE conn
            /\ UNCHANGED <<graphs, gathered_facts, pc, tg, ready>>
       ELSE LET i == IndexOf(gname, node_id)
                n == graphs[gname][i]
            IN  IF n.state # BLOCKED \/ n.gathering_method # ASK_USER
                THEN /\ ret' = "invalid_state"
                     /\ conn' = IF mode = "ws" THEN "closed" ELSE conn
                     /\ UNCHANGED <<graphs, gathered_facts, pc, tg, ready>>
                ELSE LET m == [n EXCEPT !.value = user_input,
                                        !.value_source = "user"]
                     IN  IF mode = "ws" /\ ValueUpdateRaises(m)
                         THEN /\ ret' = "error"
                              /\ graphs' = [graphs EXCEPT ![gname][i] = m]
                              /\ conn' = "closed"
                              /\ UNCHANGED <<gathered_facts, pc, tg, ready>>
                         ELSE /\ ret' = "ok"
                              /\ graphs' = [graphs EXCEPT ![gname][i] =
                                               [m EXCEPT !.state = COMPLETE]]
                              /\ gathered_facts' =
                                     [gathered_facts EXCEPT ![n.question] = user_input]
                              /\ conn' = conn
                              /\ IF mode = "ws"
                                 THEN /\ pc' = [pc EXCEPT !["user"] = "next"]
                                      /\ tg' = [tg EXCEPT !["user"] = gname]
                                      /\ ready' = [ready EXCEPT !["user"] =
                                                      DependentsFrom(graphs[gname], i, 1)]
                                 ELSE UNCHANGED <<pc, tg, ready>>
    /\ UNCHANGED <<mode, key_info_graph, exploration_graph, cur, failed_attempt>>
    /\ UNCHANGED <<roundvars, leafvars>>

\* The client goes away: from now on a notification may raise.
Disconnect ==
    /\ mode = "ws"
    /\ conn = "open"
    /\ conn' = "broken"
    /\ ret' = NoCall
    /\ UNCHANGED <<roundvars, leafvars>>
    /\ UNCHANGED <<mode, graphs, key_info_graph, exploration_graph, gathered_facts,
                   pc, tg, ready, cur, failed_attempt>>

\* The endpoint's receive raises WebSocketDisconnect: the connection is
\* unregistered, notifications become no-ops.
EndpointCleanup ==
    /\ conn = "broken"
    /\ pc["user"] = "idle"
    /\ conn' = "closed"
    /\ ret' = NoCall
    /\ UNCHANGED <<roundvars, leafvars>>
    /\ UNCHANGED <<mode, graphs, key_info_graph, exploration_graph, gathered_facts,
                   pc, tg, ready, cur, failed_attempt>>

----------------------------------------------------------------------------

Next ==
    \/ GenerateKeyInfo
    \/ GenerateExploration
    \/ FinishGraph
    \/ GetReady
    \/ Sleep
    \/ \E t \in Tasks : NextNode(t)
    \/ \E t \in Tasks : StartNode(t)
    \/ \E t \in Tasks : SearchReturns(t)
    \/ \E t \in Tasks : BreakdownReturns(t)
    \/ \E t \in Tasks : ExtractValue(t)
    \/ \E t \in Tasks : CalculationReturns(t)
    \/ \E t \in Tasks : FinishNode(t)
    \/ \E node_id \in NodeIds, user_input \in Inputs : SetUserInput(node_id, user_input)
    \/ Disconnect
    \/ EndpointCleanup

Spec == Init /\ [][Next]_vars

\* The steps of the task running process_goal.
SchedulerStep ==
    \/ GenerateKeyInfo
    \/ GenerateExploration
    \/ FinishGraph
    \/ GetReady
    \/ Sleep
    \/ NextNode("sched")
    \/ StartNode("sched")
    \/ SearchReturns("sched")
    \/ BreakdownReturns("sched")
    \/ ExtractValue("sched")
    \/ CalculationReturns("sched")
    \/ FinishNode("sched")

\* The agent with a scheduler that keeps running: batch mode is one
\* synchronous call, the event loop resumes the process_goal task after each
\* await, and every collaborator call returns or raises.
FairSpec == Spec /\ WF_vars(SchedulerStep)

\* One generated graph: n1 a web_search node, n2 an ask_user node, n3 a
\* calculate node over n1 and n2 that depends on both.
ScenarioGraph ==
    <<[node_type |-> GATHER, gathering_method |-> WEB_SEARCH,
       depends_on_ids |-> {}, input_node_ids |-> {}],
      [node_type |-> GATHER, gathering_method |-> ASK_USER,
       depends_on_ids |-> {}, input_node_ids |-> {}],
      [node_type |-> CALCULATE, gathering_method |-> Null,
       depends_on_ids |-> {1, 2}, input_node_ids |-> {1, 2}]>>

\* The agent as generation leaves it when the collaborator returned
\* ScenarioGraph: batch mode for its first graph, suspend/resume mode for
\* the graph it processes.
ScenarioInit ==
    /\ mode \in Modes
    /\ conn = IF mode = "ws" THEN "open" ELSE "none"
    /\ LET gname == IF mode = "batch" THEN "key" ELSE "exp" IN
       /\ graphs = [n \in GraphNames |->
                       IF n = gname THEN _create_processing_graph(gname, ScenarioGraph)
                       ELSE << >>]
       /\ tg = [t \in Tasks |-> IF t = "sched" THEN gname ELSE "key"]
    /\ key_info_graph = FALSE
    /\ exploration_graph = FALSE
    /\ gathered_facts = [q \in 1..Len(ScenarioGraph) |-> Null]
    /\ pc = [t \in Tasks |-> IF t = "sched" THEN "sched" ELSE "idle"]
    /\ ready = [t \in Tasks |-> << >>]
    /\ cur = [t \in Tasks |-> 0]
    /\ failed_attempt = [t \in Tasks |-> NoAttempt]
    /\ ret = NoCall
    /\ max_depth = 1
    /\ depth = 0
    /\ rpc = "idle"
    /\ all_processed_nodes = << >>
    /\ response = << >>
    /\ n_processed = 0
    /\ generate_call = NoGenerateCall
    /\ handler = HandlerIdle
    /\ analysis = AnalysisIdle
    /\ fs = NoFiles
    /\ procs = NoProcs

ScenarioNext ==
    \/ GenerateExploration
    \/ FinishGraph
    \/ GetReady
    \/ Sleep
    \/ \E t \in Tasks : NextNode(t)
    \/ \E t \in Tasks : StartNode(t)
    \/ \E t \in Tasks : SearchReturns(t)
    \/ \E t \in Tasks : BreakdownReturns(t)
    \/ \E t \in Tasks : ExtractValue(t)
    \/ \E t \in Tasks : CalculationReturns(t)
    \/ \E t \in Tasks : FinishNode(t)
    \/ \E node_id \in NodeIds, user_input \in Inputs : SetUserInput(node_id, user_input)
    \/ Disconnect
    \/ EndpointCleanup

ScenarioSpec == ScenarioInit /\ [][ScenarioNext]_vars

----------------------------------------------------------------------------
\* The round driver (_gather_key_info, _explore_solutions) with graph
\* generation and validation (core/graphs/base.py).

\* Largest number of new nodes the generation models return to one driver.
MaxSpecLen == 2

\* Largest max_depth an agent is built with.
MaxDepth == 2

\* The non-empty ids and texts the generation models use.
Ids == {"n1", "n2"}

\* A node specification (tree.py InfoNodeSpec).  "" and {} stand for the
\* values Python takes as false: None, "" and [].
node_spec(id, d, q, r, ty, m, sq, cc, ce, inp) ==
    [id |-> id, depends_on_ids |-> d, question |-> q, rationale |-> r,
     node_type |-> ty, gathering_method |-> m, search_queries |-> sq,
     calculation_code |-> cc, calculation_explanation |-> ce,
     input_node_ids |-> inp]

\* The node specifications a model may return: complete ones of the three
\* kinds with any id, the empty one too, and no, a or another dependency;
\* and ones that lack one field.
GeneratedNodes ==
    UNION {{node_spec(id, d, "q", "r", GATHER, WEB_SEARCH, "queries", "", "", {}),
            node_spec(id, d, "q", "r", GATHER, ASK_USER, "", "", "", {}),
            node_spec(id, d, "q", "r", CALCULATE, "", "", "code", "explanation", {"n1"})} :
              id \in Ids \cup {""}, d \in {{}} \cup {{x} : x \in Ids}}
    \cup
    {node_spec("n1", {}, "", "r", GATHER, WEB_SEARCH, "queries", "", "", {}),
     node_spec("n1", {}, "q", "", GATHER, WEB_SEARCH, "queries", "", "", {}),
     node_spec("n1", {}, "q", "r", GATHER, WEB_SEARCH, "", "", "", {}),
     node_spec("n1", {}, "q", "r", GATHER, "", "", "", "", {}),
     node_spec("n1", {}, "q", "r", CALCULATE, "", "", "", "explanation", {"n1"}),
     node_spec("n1", {}, "q", "r", CALCULATE, "", "", "code", "", {"n1"}),
     node_spec("n1", {}, "q", "r", CALCULATE, "", "", "code", "explanation", {})}

RECURSIVE ModelResponses(_)
\* The node lists of length n the models may return.
ModelResponses(n) ==
    IF n = 0 THEN {<< >>}
    ELSE {Append(r, node) : r \in ModelResponses(n - 1), node \in GeneratedNodes}

\* The new nodes the models may still return to the driver.
RoundBudget ==
    MaxSpecLen - Cardinality({all_processed_nodes[i].id : i \in 1..Len(all_processed_nodes)})

\* _generate_sequential_graphs: the nodes of the earlier rounds, converted
\* back to specifications (the conversions copy the fields kept here),
\* followed by the nodes the models returned.
all_nodes == all_processed_nodes \o response

\* Mutant of _validate_node: ids are not compared with the ids seen.
_validate_node_nodup(node, existing_ids) ==
    /\ node.id # ""
    /\ node.question # ""
    /\ node.rationale # ""
    /\ \A dep_id \in node.depends_on_ids : dep_id \in existing_ids
    /\ node.node_type = GATHER =>
          /\ node.gathering_method # ""
          /\ node.gathering_method = WEB_SEARCH => node.search_queries # ""
    /\ node.node_type = CALCULATE =>
          /\ node.calculation_code # ""
          /\ node.calculation_explanation # ""
          /\ node.input_node_ids # {}

\* _validate_node: TRUE when no assertion fails.
_validate_node(node, existing_ids) ==
    /\ node.id # ""
    /\ node.question # ""
    /\ node.rationale # ""
    /\ node.id \notin existing_ids
    /\ \A dep_id \in node.depends_on_ids : dep_id \in existing_ids
    /\ node.node_type = GATHER =>
          /\ node.gathering_method # ""
          /\ node.gathering_method = WEB_SEARCH => node.search_queries # ""
    /\ node.node_type = CALCULATE =>
          /\ node.calculation_code # ""
          /\ node.calculation_explanation # ""
          /\ node.input_node_ids # {}

\* Mutant of _validate_graph: a graph without nodes is let through.
_validate_graph_empty(nodes) ==
    \A i \in 1..Len(nodes) :
        _validate_node(nodes[i], {nodes[j].id : j \in 1..(i - 1)})

\* _validate_graph: TRUE when no assertion fails.
_validate_graph(nodes) ==
    /\ nodes # << >>
    /\ \A i \in 1..Len(nodes) :
          _validate_node(nodes[i], {nodes[j].id : j \in 1..(i - 1)})

RoundsInit ==
    /\ mode = "batch"
    /\ conn = "none"
    /\ graphs = [gname \in GraphNames |-> << >>]
    /\ key_info_graph = FALSE
    /\ exploration_graph = FALSE
    /\ gathered_facts = [q \in {"q"} |-> Null]
    /\ pc = [t \in Tasks |-> "idle"]
    /\ tg = [t \in Tasks |-> "key"]
    /\ ready = [t \in Tasks |-> << >>]
    /\ cur = [t \in Tasks |-> 0]
    /\ failed_attempt = [t \in Tasks |-> NoAttempt]
    /\ ret = NoCall
    /\ max_depth \in 1..MaxDepth
    /\ depth = 0
    /\ rpc = "generate"
    /\ all_processed_nodes = << >>
    /\ response = << >>
    /\ n_processed = 0
    /\ generate_call = NoGenerateCall
    /\ handler = HandlerIdle
    /\ analysis = AnalysisIdle
    /\ fs = NoFiles
    /\ procs = NoProcs

\* generate_graph up to validation: the models return their nodes (or the
\* call raises, which ends process_goal).
GenerateGraph ==
    /\ rpc = "generate"
    /\ generate_call' = [calls |-> generate_call.calls + 1,
                         known_facts |-> gathered_facts,
                         explored_nodes |-> all_processed_nodes]
    /\ \/ \E n \in 0..RoundBudget : \E r \in ModelResponses(n) :
            /\ response' = r
            /\ rpc' = "validate"
       \/ /\ response' = << >>
          /\ rpc' = "failed"
    /\ UNCHANGED <<max_depth, depth, all_processed_nodes, n_processed, gathered_facts>>
    /\ UNCHANGED <<agentvars, leafvars>>

\* Mutant of ValidateGraph: the nodes of a rejected specification are handed
\* on all the same.
ValidateGraph_lenient ==
    /\ rpc = "validate"
    /\ IF _validate_graph(all_nodes)
       THEN /\ rpc' = "process"
            /\ UNCHANGED <<all_processed_nodes, n_processed>>
       ELSE /\ rpc' = "failed"
            /\ all_processed_nodes' = all_processed_nodes \o all_nodes
            /\ n_processed' = n_processed + Len(all_nodes)
    /\ UNCHANGED <<max_depth, depth, response, gathered_facts, generate_call>>
    /\ UNCHANGED <<agentvars, leafvars>>

\* The end of _generate_sequential_graphs: the complete specification is
\* validated; an AssertionError leaves generate_graph, the driver and
\* process_goal.
ValidateGraph ==
    /\ rpc = "validate"
    /\ rpc' = IF _validate_graph(all_nodes) THEN "process" ELSE "failed"
    /\ UNCHANGED <<max_depth, depth, all_processed_nodes, response, n_processed,
                   gathered_facts, generate_call>>
    /\ UNCHANGED <<agentvars, leafvars>>

\* Mutant of ProcessRound: the loop does not stop after max_depth rounds.
ProcessRound_endless ==
    /\ rpc = "process"
    /\ n_processed' = n_processed + Len(all_nodes)
    /\ gathered_facts' = gathered_facts
    /\ all_processed_nodes' = all_processed_nodes \o all_nodes
    /\ rpc' = IF all_nodes = << >> THEN "returned" ELSE "generate"
    /\ depth' = depth + 1
    /\ response' = << >>
    /\ UNCHANGED <<max_depth, generate_call>>
    /\ UNCHANGED <<agentvars, leafvars>>

\* The rest of the round: the specification returned is converted and run
\* by _process_graph (here: every node is handed to it, and values may be
\* folded into the facts), its nodes are added to the accumulated ones, and
\* the loop stops on an empty graph or after max_depth rounds.
ProcessRound ==
    /\ rpc = "process"
    /\ LET processing_graph == all_nodes IN
       /\ n_processed' = n_processed + Len(processing_graph)
       /\ \/ gathered_facts' = gathered_facts
          \/ /\ processing_graph # << >>
             /\ gathered_facts' = [gathered_facts EXCEPT !["q"] = "value"]
       /\ all_processed_nodes' = all_processed_nodes \o processing_graph
       /\ IF processing_graph = << >> \/ depth + 1 = max_depth
          THEN rpc' = "returned"
          ELSE rpc' = "generate"
       /\ depth' = depth + 1
    /\ response' = << >>
    /\ UNCHANGED <<max_depth, generate_call>>
    /\ UNCHANGED <<agentvars, leafvars>>

RoundsNext ==
    \/ GenerateGraph
    \/ ValidateGraph
    \/ ProcessRound

RoundsSpec == RoundsInit /\ [][RoundsNext]_vars

----------------------------------------------------------------------------
\* FailedSearchBreakdownHandler.handle_failed_search
\* (core/handlers/failed_search_breakdown_handler.py), statement by
\* statement, with its collaborators' calls recorded.

\* Most sub-nodes a breakdown holds, and most queries a node carries.
MaxSubNodes == 2
MaxQueries == 2

\* The query lists a parent node may carry.
ParentQueries == {[k \in 1..n |-> <<0, k>>] : n \in 0..MaxQueries}

\* The search_queries of the breakdown's i-th node when it carries n of them.
SubQueries(i, n) == [k \in 1..n |-> <<i, k>>]

RECURSIVE Breakdowns(_)
\* The new_nodes lists of length n generate_search_breakdown may return: a
\* node is kept as its search_queries.
Breakdowns(n) ==
    IF n = 0 THEN {<< >>}
    ELSE {Append(b, SubQueries(n, nq)) : b \in Breakdowns(n - 1), nq \in 0..MaxQueries}

HandlerInit ==
    /\ AgentIdle
    /\ DriverIdle
    /\ \E failed_searches \in ParentQueries :
          handler = [HandlerIdle EXCEPT !.pc = "breakdown",
                                        !.failed_searches = failed_searches]
    /\ analysis = AnalysisIdle
    /\ fs = NoFiles
    /\ procs = NoProcs

\* generate_search_breakdown returns the breakdown, or raises;
\* all_failed_searches starts as a copy of failed_searches.
GenerateSearchBreakdown ==
    /\ handler.pc = "breakdown"
    /\ \/ \E n \in 0..MaxSubNodes : \E b \in Breakdowns(n) :
            handler' = [handler EXCEPT !.pc = "loop",
                                       !.new_nodes = b,
                                       !.i = 1,
                                       !.all_failed_searches = handler.failed_searches]
       \/ handler' = [handler EXCEPT !.pc = "raised"]
    /\ UNCHANGED <<agentvars, roundvars, gathered_facts, analysis, fs, procs>>

\* Mutant of SubSearch: the queries of a failed sub-node are not kept.
SubSearch_forgetful ==
    /\ handler.pc = "loop"
    /\ handler.i <= Len(handler.new_nodes)
    /\ LET i == handler.i
           search_queries == handler.new_nodes[i]
       IN  IF search_queries = << >>
           THEN handler' = [handler EXCEPT !.i = i + 1]
           ELSE \/ \E node_results \in {"results", "empty"} :
                     handler' =
                       [handler EXCEPT
                          !.i = i + 1,
                          !.search_calls =
                              Append(@, [node |-> i, returned |-> node_results]),
                          !.all_results =
                              IF node_results = "results" THEN Append(@, i) ELSE @]
                \/ handler' = [handler EXCEPT !.pc = "raised"]
    /\ UNCHANGED <<agentvars, roundvars, gathered_facts, analysis, fs, procs>>

\* One iteration of `for node in breakdown.new_nodes`: a node with queries
\* is searched; its results are collected, or its queries are added to the
\* failed searches; a raise of the search leaves the handler.
SubSearch ==
    /\ handler.pc = "loop"
    /\ handler.i <= Len(handler.new_nodes)
    /\ LET i == handler.i
           search_queries == handler.new_nodes[i]
       IN  IF search_queries = << >>
           THEN handler' = [handler EXCEPT !.i = i + 1]
           ELSE \/ \E node_results \in {"results", "empty"} :
                     handler' =
                       [handler EXCEPT
                          !.i = i + 1,
                          !.search_calls =
                              Append(@, [node |-> i, returned |-> node_results]),
                          !.all_results =
                              IF node_results = "results" THEN Append(@, i) ELSE @,
                          !.all_failed_searches =
                              IF node_results = "results" THEN @ ELSE @ \o search_queries]
                \/ handler' = [handler EXCEPT
                                  !.pc = "raised",
                                  !.search_calls =
                                      Append(@, [node |-> i, returned |-> "raised"])]
    /\ UNCHANGED <<agentvars, roundvars, gathered_facts, analysis, fs, procs>>

\* After the loop: results make the attempt successful; without results the
\* estimate handler is called with all_failed_searches, and returns or
\* raises.
HandlerReturns ==
    /\ handler.pc = "loop"
    /\ handler.i > Len(handler.new_nodes)
    /\ IF handler.all_results # << >>
       THEN handler' = [handler EXCEPT !.pc = "returned", !.was_successful = "true"]
       ELSE \/ handler' = [handler EXCEPT
                              !.pc = "returned",
                              !.was_successful = "false",
                              !.estimate_calls = Append(@, handler.all_failed_searches)]
            \/ handler' = [handler EXCEPT
                              !.pc = "raised",
                              !.estimate_calls = Append(@, handler.all_failed_searches)]
    /\ UNCHANGED <<agentvars, roundvars, gathered_facts, analysis, fs, procs>>

HandlerNext ==
    \/ GenerateSearchBreakdown
    \/ SubSearch
    \/ HandlerReturns

HandlerSpec == HandlerInit /\ [][HandlerNext]_vars

----------------------------------------------------------------------------
\* SearchHandler.search_and_analyze (core/handlers/search_handler.py) as
\* called by _process_node for a web_search node.

\* Most pages scrape_citations returns for one search.
MaxPages == 2

\* tenacity.stop_after_attempt(3)
MaxAttempts == 3

\* The agent has entered _process_node for the one web_search node of its
\* graph and calls search_and_analyze.
AnalysisInit ==
    /\ mode \in Modes
    /\ conn = IF mode = "ws" THEN "open" ELSE "none"
    /\ LET gname == IF mode = "batch" THEN "key" ELSE "exp"
           n == ProcessingNode(gname, 1,
                               [node_type |-> GATHER, gathering_method |-> WEB_SEARCH,
                                depends_on_ids |-> {}, input_node_ids |-> {}])
       IN  /\ graphs = [g \in GraphNames |->
                           IF g = gname THEN <<[n EXCEPT !.state = SEARCHING]>>
                           ELSE << >>]
           /\ tg = [t \in Tasks |-> IF t = "sched" THEN gname ELSE "key"]
    /\ key_info_graph = FALSE
    /\ exploration_graph = FALSE
    /\ gathered_facts = [q \in {1} |-> Null]
    /\ pc = [t \in Tasks |-> IF t = "sched" THEN "searching" ELSE "idle"]
    /\ ready = [t \in Tasks |-> << >>]
    /\ cur = [t \in Tasks |-> IF t = "sched" THEN 1 ELSE 0]
    /\ failed_attempt = [t \in Tasks |-> NoAttempt]
    /\ ret = NoCall
    /\ DriverIdle
    /\ handler = HandlerIdle
    /\ analysis = [AnalysisIdle EXCEPT !.pc = "scrape"]
    /\ fs = NoFiles
    /\ procs = NoProcs

\* The searches and scrape_citations: no citation or no content returns the
\* empty list; otherwise every page is handed to content analysis.
ScrapeCitations ==
    /\ analysis.pc = "scrape"
    /\ \E n \in 0..MaxPages :
          analysis' = IF n = 0
                      THEN [analysis EXCEPT !.pc = "returned"]
                      ELSE [pc |-> "analyze",
                            pages |-> [p \in 1..n |-> [attempts |-> 0, status |-> "pending"]],
                            page |-> 1]
    /\ UNCHANGED <<agentvars, roundvars, gathered_facts, handler, fs, procs>>

\* Where search_and_analyze is once page p has been analysed.
AfterPage(p) ==
    IF p = Len(analysis.pages) THEN "returned" ELSE "analyze"

\* Mutant of AnalyzeAttempt: after the last failed attempt the page counts
\* as a page without results.
AnalyzeAttempt_swallowed ==
    /\ analysis.pc = "analyze"
    /\ LET p == analysis.page
           attempts == analysis.pages[p].attempts + 1
       IN  \/ \E status \in {"results", "nothing"} :
                 analysis' = [analysis EXCEPT
                                 !.pages[p] = [attempts |-> attempts, status |-> status],
                                 !.page = IF p = Len(analysis.pages) THEN p ELSE p + 1,
                                 !.pc = AfterPage(p)]
           \/ IF attempts < MaxAttempts
              THEN analysis' = [analysis EXCEPT !.pages[p].attempts = attempts]
              ELSE analysis' = [analysis EXCEPT
                                   !.pages[p] = [attempts |-> attempts, status |-> "failed"],
                                   !.page = IF p = Len(analysis.pages) THEN p ELSE p + 1,
                                   !.pc = AfterPage(p)]
    /\ UNCHANGED <<agentvars, roundvars, gathered_facts, handler, fs, procs>>

\* One attempt of _analyze_content_with_retry for the current page: the
\* model call returns results or none, and the next page is taken; or it
\* raises, and tenacity waits and retries, or after the last attempt raises
\* RetryError out of search_and_analyze.
AnalyzeAttempt ==
    /\ analysis.pc = "analyze"
    /\ LET p == analysis.page
           attempts == analysis.pages[p].attempts + 1
       IN  \/ \E status \in {"results", "nothing"} :
                 analysis' = [analysis EXCEPT
                                 !.pages[p] = [attempts |-> attempts, status |-> status],
                                 !.page = IF p = Len(analysis.pages) THEN p ELSE p + 1,
                                 !.pc = AfterPage(p)]
           \/ IF attempts < MaxAttempts
              THEN analysis' = [analysis EXCEPT !.pages[p].attempts = attempts]
              ELSE analysis' = [analysis EXCEPT
                                   !.pages[p] = [attempts |-> attempts, status |-> "failed"],
                                   !.pc = "raised"]
    /\ UNCHANGED <<agentvars, roundvars, gathered_facts, handler, fs, procs>>

\* What the call of search_and_analyze gives _process_node.
SearchOutcome ==
    IF analysis.pc = "raised" THEN "search_raised"
    ELSE IF \E p \in 1..Len(analysis.pages) : analysis.pages[p].status = "results"
         THEN "found"
         ELSE "empty"

\* search_and_analyze is over and _process_node goes on with what it gave.
SearchAndAnalyzeReturns ==
    /\ analysis.pc \in {"returned", "raised"}
    /\ SearchReturns("sched")
    /\ graphs'[tg["sched"]][1].outcome = SearchOutcome

AnalysisNext ==
    \/ ScrapeCitations
    \/ AnalyzeAttempt
    \/ SearchAndAnalyzeReturns
    \/ BreakdownReturns("sched")
    \/ ExtractValue("sched")
    \/ FinishNode("sched")

AnalysisSpec == AnalysisInit /\ [][AnalysisNext]_vars

----------------------------------------------------------------------------
\* FileCache.set under file_lock (caching/base.py), for the FileCache
\* instances that components of one process, or of several, open on the
\* same cache file.

\* The set calls one instance makes.
MaxSets == 2

\* Two instances on one cache file, as the ensemblers' OpenAIFileCache().
Instances == {"a", "b"}

\* Every instance has been constructed while the cache file did not exist:
\* _load_cache returned at once and cache_data is empty.
CacheInit ==
    /\ AgentIdle
    /\ DriverIdle
    /\ handler = HandlerIdle
    /\ analysis = AnalysisIdle
    /\ fs = NoFiles
    /\ procs = [p \in Instances |->
                   [pc |-> "idle", lock_file |-> 0, cache_data |-> {},
                    key |-> <<p, 0>>, calls |-> 0, acquired |-> FALSE]]

\* Inside the body of `with file_lock(...)`.
InLock(p) == procs[p].pc \in {"write", "unlock"}

\* set(key, value) up to the with statement: the entry is put into the
\* instance's memory.
Set(p) ==
    /\ procs[p].pc = "idle"
    /\ procs[p].calls < MaxSets
    /\ LET key == <<p, procs[p].calls + 1>> IN
       procs' = [procs EXCEPT ![p] = [@ EXCEPT !.pc = "open",
                                               !.key = key,
                                               !.calls = @ + 1,
                                               !.acquired = FALSE,
                                               !.cache_data = @ \cup {key}]]
    /\ UNCHANGED <<agentvars, roundvars, gathered_facts, handler, analysis, fs>>

\* open(lock_path, "w"): the file the path names, or a new one.
OpenLock(p) ==
    /\ procs[p].pc = "open"
    /\ IF fs.lock_path # 0
       THEN /\ procs' = [procs EXCEPT ![p] = [@ EXCEPT !.pc = "flock",
                                                       !.lock_file = fs.lock_path]]
            /\ fs' = fs
       ELSE /\ procs' = [procs EXCEPT ![p] = [@ EXCEPT !.pc = "flock",
                                                       !.lock_file = fs.inodes + 1]]
            /\ fs' = [fs EXCEPT !.inodes = @ + 1, !.lock_path = fs.inodes + 1]
    /\ UNCHANGED <<agentvars, roundvars, gathered_facts, handler, analysis>>

\* flock(LOCK_EX | LOCK_NB) on the file opened: the lock is taken; or it is
\* held through another open file, and the file is closed and opened again
\* after a sleep, or, past the timeout, TimeoutError goes to the outer
\* finally clause.
Flock(p) ==
    /\ procs[p].pc = "flock"
    /\ IF procs[p].lock_file \notin fs.flock
       THEN /\ fs' = [fs EXCEPT !.flock = @ \cup {procs[p].lock_file}]
            /\ procs' = [procs EXCEPT ![p] = [@ EXCEPT !.pc = "write",
                                                       !.acquired = TRUE]]
       ELSE /\ fs' = fs
            /\ \E next \in {"open", "cleanup"} :
                  procs' = [procs EXCEPT ![p] = [@ EXCEPT !.pc = next,
                                                          !.lock_file = 0]]
    /\ UNCHANGED <<agentvars, roundvars, gathered_facts, handler, analysis>>

\* The body of the with statement: the instance's memory is dumped over the
\* cache file.
WriteCache(p) ==
    /\ procs[p].pc = "write"
    /\ fs' = [fs EXCEPT !.cache_file = procs[p].cache_data]
    /\ procs' = [procs EXCEPT ![p] = [@ EXCEPT !.pc = "unlock"]]
    /\ UNCHANGED <<agentvars, roundvars, gathered_facts, handler, analysis>>

\* The inner finally clause: LOCK_UN and close.
Unlock(p) ==
    /\ procs[p].pc = "unlock"
    /\ fs' = [fs EXCEPT !.flock = @ \ {procs[p].lock_file}]
    /\ procs' = [procs EXCEPT ![p] = [@ EXCEPT !.pc = "cleanup"]]
    /\ UNCHANGED <<agentvars, roundvars, gathered_facts, handler, analysis>>

\* The outer finally clause: the lock path is unlinked if it exists; set
\* returns, or the TimeoutError leaves it.
Cleanup(p) ==
    /\ procs[p].pc = "cleanup"
    /\ fs' = [fs EXCEPT !.lock_path = 0,
                        !.stored = IF procs[p].acquired
                                   THEN @ \cup {procs[p].key} ELSE @]
    /\ procs' = [procs EXCEPT ![p] = [@ EXCEPT !.pc = "idle", !.lock_file = 0]]
    /\ UNCHANGED <<agentvars, roundvars, gathered_facts, handler, analysis>>

CacheNext ==
    \/ \E p \in Instances : Set(p)
    \/ \E p \in Instances : OpenLock(p)
    \/ \E p \in Instances : Flock(p)
    \/ \E p \in Instances : WriteCache(p)
    \/ \E p \in Instances : Unlock(p)
    \/ \E p \in Instances : Cleanup(p)

CacheSpec == CacheInit /\ [][CacheNext]_vars

----------------------------------------------------------------------------
\* Vocabulary of the properties.

\* Some task is inside _process_node for node i of graph gname.
InProcess(gname, i) ==
    \E t \in Tasks :
        /\ tg[t] = gname
        /\ cur[t] = i
        /\ pc[t] \in {"node_start", "searching", "breakdown", "extract",
                      "calculating", "finish"}

\* The nodes the agent has built, as <<graph, position>>.
BuiltNodes ==
    UNION {{<<gname, i>> : i \in 1..Len(graphs[gname])} : gname \in GraphNames}

----------------------------------------------------------------------------
\* Properties.

\* C1: the scheduler loop starts processing a node only when that node is
\* Pending and every node of its depends_on_ids is Complete at that moment.
C1_StartsOnlyReadyNodes ==
    [][(pc["sched"] = "node_start" /\ pc'["sched"] # "node_start") =>
          LET g == graphs[tg["sched"]]
              n == g[cur["sched"]]
          IN  /\ n.state = PENDING
              /\ \A dep_id \in n.depends_on_ids : g[dep_id].state = COMPLETE]_vars

\* C1: the scheduler is past the start of a node that has dependencies.
C1_Witness ==
    /\ pc["sched"] \in {"searching", "calculating"}
    /\ Node("sched").depends_on_ids # {}

\* C2: a gather node of method ask_user, once processed, is Blocked without
\* a value, and is Complete only with a value that set_user_input gave it.
C2_AskUserWaitsForInput ==
    \A b \in BuiltNodes :
        LET n == graphs[b[1]][b[2]] IN
        (/\ n.node_type = GATHER
         /\ n.gathering_method = ASK_USER
         /\ n.state # PENDING
         /\ ~InProcess(b[1], b[2]))
        => \/ n.state = BLOCKED /\ n.value = Null
           \/ n.state = COMPLETE /\ n.value_source = "user"

\* C3: when the fallback chain of a web_search node found nothing and
\* returned an estimate, the node ends Complete with the estimate's value as
\* value, value_source estimate, the estimate recorded on it and the
\* breakdown attempt marked unsuccessful.
C3_EstimateIsTheValue ==
    \A t \in Tasks :
        (pc[t] = "next" /\ cur[t] # 0 /\ failed_attempt[t].estimate # Null)
        => /\ Node(t).state = COMPLETE
           /\ Node(t).value = EstimateValue(failed_attempt[t].estimate)
           /\ Node(t).value_source = "estimate"
           /\ Node(t).estimate = failed_attempt[t].estimate
           /\ failed_attempt[t].breakdown_attempt = "unsuccessful"

C5_FailedCalculationLeavesNoValue ==
    \A b \in BuiltNodes :
        LET n == graphs[b[1]][b[2]] IN
        (/\ n.node_type = CALCULATE
         /\ n.value_source = "calculation"
         /\ n.calculation_result = Null
         /\ ~InProcess(b[1], b[2]))
        => n.state = COMPLETE /\ n.value = Null

\* C6: set_user_input(node_id, v) for a node that is Blocked with method
\* ask_user returns without error and leaves the node Complete with value v
\* and value_source user, and the facts map its question to v.
C6_ProvideInputResolves ==
    [][\A node_id \in NodeIds, v \in Inputs : \A b \in BuiltNodes :
          LET n == graphs[b[1]][b[2]] IN
          (/\ SetUserInput(node_id, v)
           /\ n.id = node_id
           /\ n.state = BLOCKED
           /\ n.gathering_method = ASK_USER)
          => /\ ret' = "ok"
             /\ graphs'[b[1]][b[2]].value = v
             /\ graphs'[b[1]][b[2]].value_source = "user"
             /\ graphs'[b[1]][b[2]].state = COMPLETE
             /\ gathered_facts'[n.question] = v]_vars

\* C7: set_user_input for a node that exists but is not both Blocked and of
\* method ask_user fails with the invalid-state error and changes no node
\* and no fact.
C7_InvalidStateChangesNothing ==
    [][\A node_id \in NodeIds, v \in Inputs : \A b \in BuiltNodes :
          LET n == graphs[b[1]][b[2]] IN
          (/\ SetUserInput(node_id, v)
           /\ n.id = node_id
           /\ ~(n.state = BLOCKED /\ n.gathering_method = ASK_USER))
          => /\ ret' = "invalid_state"
             /\ graphs' = graphs
             /\ gathered_facts' = gathered_facts]_vars

\* C8: set_user_input finds every node of the graphs the agent is processing
\* or has processed; it reports not-found exactly when no graph holds a node
\* with that id.
C8_FindsEveryNode ==
    [][\A node_id \in NodeIds, v \in Inputs :
          SetUserInput(node_id, v)
          => (ret' = "not_found"
                <=> ~\E b \in BuiltNodes : graphs[b[1]][b[2]].id = node_id)]_vars

\* C9: once a node's value_source is set, no step changes it or the value.
C9_ValueSourceSetOnce ==
    [][\A b \in BuiltNodes :
          LET n == graphs[b[1]][b[2]] IN
          n.value_source # Null
          => /\ graphs'[b[1]][b[2]].value_source = n.value_source
             /\ graphs'[b[1]][b[2]].value = n.value]_vars

\* C10: once a node's state has left Pending, no step sets it back to
\* Pending.
C10_NeverBackToPending ==
    [][\A b \in BuiltNodes :
          graphs[b[1]][b[2]].state # PENDING
          => graphs'[b[1]][b[2]].state # PENDING]_vars

\* C10: the run is over and left a node Blocked by the error handler.
C10_Witness ==
    /\ pc["sched"] = "done"
    /\ \E b \in BuiltNodes : graphs[b[1]][b[2]].state = BLOCKED

\* The scheduler of the graph in hand has found no node ready: the graph
\* has run to fixpoint.  (The loop of suspend/resume mode then waits for as
\* long as a node is Blocked.)
AtFixpoint == pc["sched"] \in {"graph_done", "sleeping"}

\* What IdeaAgent._process_node leaves of a node, by the outcome of the
\* collaborator calls made for it.
IdeaAgentResult(g, n) ==
    LET res(st, v, src) == [state |-> st, value |-> v, value_source |-> src] IN
    IF n.node_type = GATHER
    THEN CASE n.gathering_method # WEB_SEARCH -> res(COMPLETE, Null, Null)
           [] n.outcome = "found" -> res(COMPLETE, JoinFacts("own"), "search")
           [] n.outcome = "sub" -> res(COMPLETE, JoinFacts("sub"), "search")
           [] n.outcome = "estimate" -> res(COMPLETE, JoinFacts("empty"), "search")
           [] OTHER -> res(BLOCKED, Null, Null)
    ELSE CASE \E input_id \in n.input_node_ids : input_id \notin 1..Len(g) ->
                res(BLOCKED, Null, Null)
           [] n.outcome = "result" -> res(COMPLETE, Str("result"), "calculation")
           [] n.outcome = "no_result" -> res(COMPLETE, Str(Null), "calculation")
           [] OTHER -> res(BLOCKED, Null, Null)

\* C11: when the fallback chain has run for a node (its own search returned
\* nothing), the node had no breakdown_attempt before, and has the attempt
\* of that run recorded on it afterwards.
C11_OneBreakdownAttempt ==
    [][\A t \in Tasks :
          (/\ pc[t] = "breakdown"
           /\ pc'[t] # "breakdown"
           /\ failed_attempt'[t] # NoAttempt)
          => /\ Node(t).breakdown_attempt = Null
             /\ graphs'[tg[t]][cur[t]].breakdown_attempt
                   = failed_attempt'[t].breakdown_attempt]_vars

\* C12: a failing collaborator call never ends the task that processes the
\* nodes, and the node it was made for is Blocked once its processing step
\* is over.
C12_FailureStaysInTheNode ==
    /\ \A t \in Tasks : pc[t] # "crashed"
    /\ \A b \in BuiltNodes :
          LET n == graphs[b[1]][b[2]] IN
          (/\ n.outcome \in {"search_raised", "breakdown_raised", "calculation_raised"}
           /\ ~InProcess(b[1], b[2])
           /\ n.value_source # "user")
          => n.state = BLOCKED

\* C13: at the fixpoint of a graph, in either mode, every processed node
\* has the state, value and value_source that batch mode gives it for the
\* outcomes of its collaborator calls, and the facts hold the value of every
\* Complete node of the graph that has one.
C13_ModesAgree ==
    AtFixpoint =>
        LET g == graphs[tg["sched"]] IN
        \A i \in 1..Len(g) :
            /\ g[i].state # PENDING =>
                  [state |-> g[i].state, value |-> g[i].value,
                   value_source |-> g[i].value_source] = IdeaAgentResult(g, g[i])
            /\ (g[i].state = COMPLETE /\ g[i].value # Null) =>
                  gathered_facts[g[i].question] = g[i].value

\* C14: while a calculate node is being processed, every node of its
\* input_node_ids is a node of the same graph and is Complete.
C14_InputsAreComplete ==
    \A t \in Tasks :
        pc[t] = "calculating" =>
            \A input_id \in Node(t).input_node_ids :
                /\ input_id \in 1..Len(graphs[tg[t]])
                /\ graphs[tg[t]][input_id].state = COMPLETE

\* C19: when the run of a graph finishes, the facts map the question of
\* every Complete node of the graph with a value to that value.
C19_FactsHoldEveryValue ==
    pc["sched"] = "graph_done" =>
        LET g == graphs[tg["sched"]] IN
        \A i \in 1..Len(g) :
            (g[i].state = COMPLETE /\ g[i].value # Null)
            => gathered_facts[g[i].question] = g[i].value

\* C20: in suspend/resume mode the notifications decide nothing: no task
\* ends on one, and two processed nodes of a graph that are of the same
\* kind and whose collaborator calls had the same outcome have the same
\* state, value and value_source.
C20_NotificationsDecideNothing ==
    mode = "ws" =>
        /\ \A t \in Tasks : pc[t] # "crashed"
        /\ \A gname \in GraphNames :
              LET g == graphs[gname] IN
              \A i, j \in 1..Len(g) :
                  (/\ g[i].node_type = g[j].node_type
                   /\ g[i].gathering_method = g[j].gathering_method
                   /\ g[i].outcome = g[j].outcome
                   /\ (\A input_id \in g[i].input_node_ids : input_id \in 1..Len(g))
                         <=> (\A input_id \in g[j].input_node_ids : input_id \in 1..Len(g))
                   /\ g[i].state # PENDING /\ ~InProcess(gname, i)
                   /\ g[j].state # PENDING /\ ~InProcess(gname, j))
                  => /\ g[i].state = g[j].state
                     /\ g[i].value = g[j].value
                     /\ g[i].value_source = g[j].value_source

\* C15: a specification that has passed validation has pairwise distinct
\* node ids, the nodes of the earlier rounds included, and every dependency
\* of a node is the id of a node strictly earlier in the list.
C15_ValidatedGraphIsAcyclic ==
    rpc = "process" =>
        \A i \in 1..Len(all_nodes) :
            /\ \A j \in 1..Len(all_nodes) :
                  j # i => all_nodes[j].id # all_nodes[i].id
            /\ \A dep_id \in all_nodes[i].depends_on_ids :
                  \E j \in 1..(i - 1) : all_nodes[j].id = dep_id

\* C15: the specification of a second round, with a new node that depends
\* on a node of the first round, has passed validation.
C15_Witness ==
    /\ rpc = "process"
    /\ depth = 1
    /\ response # << >>
    /\ response[1].depends_on_ids # {}

\* C16: validation rejects the specification when it has no nodes, or a
\* node has an empty id, question or rationale, or a web_search gather node
\* has no queries, or a calculate node has no input_node_ids or no
\* explanation.
C16_ValidationRejects ==
    [][(/\ rpc = "validate"
        /\ \/ all_nodes = << >>
           \/ \E i \in 1..Len(all_nodes) :
                LET node == all_nodes[i] IN
                \/ node.id = ""
                \/ node.question = ""
                \/ node.rationale = ""
                \/ /\ node.node_type = GATHER
                   /\ node.gathering_method = WEB_SEARCH
                   /\ node.search_queries = ""
                \/ /\ node.node_type = CALCULATE
                   /\ \/ node.input_node_ids = {}
                      \/ node.calculation_explanation = "")
       => rpc' = "failed"]_vars

\* C16: a specification without nodes has been rejected.
C16_Witness ==
    /\ rpc = "failed"
    /\ depth = 0
    /\ all_nodes = << >>
    /\ n_processed = 0

\* C17: the step in which validation rejects a round's specification
\* hands no node to processing and leaves the facts and the accumulated
\* nodes as they were.
C17_RejectedRoundChangesNothing ==
    [][(rpc = "validate" /\ rpc' = "failed")
       => /\ n_processed' = n_processed
          /\ gathered_facts' = gathered_facts
          /\ all_processed_nodes' = all_processed_nodes]_vars

\* C17: the specification of a second round has been rejected, after the
\* first round was processed and left a fact.
C17_Witness ==
    /\ rpc = "failed"
    /\ depth = 1
    /\ response # << >>
    /\ gathered_facts["q"] # Null

\* C18: when the models return no new node in a round, validation does not
\* fail, and the driver hands nothing to processing, adds nothing to the
\* accumulated nodes and returns.
C18_EmptyRoundStopsTheDriver ==
    [][/\ (rpc = "validate" /\ response = << >>) => rpc' # "failed"
       /\ (rpc = "process" /\ response = << >>)
             => /\ rpc' = "returned"
                /\ n_processed' = n_processed
                /\ all_processed_nodes' = all_processed_nodes]_vars

\* The positions of a task inside _process_node.
Processing(t) ==
    pc[t] \in {"node_start", "searching", "breakdown", "extract", "calculating", "finish"}

\* C21: when the scheduler loop is at its fixpoint on the graph n1, n2, n3
\* with n1's search empty and its sub-searches successful and the
\* calculation of n3 successful, n1 is Complete from search with a
\* successful breakdown_attempt, n2 is Complete with a value the user gave,
\* n3 is Complete from calculation with a calculation_result, and the graph
\* has exactly these three nodes.
C21_ScenarioEndsComplete ==
    LET g == graphs[tg["sched"]] IN
    (AtFixpoint /\ g[1].outcome = "sub" /\ g[3].outcome = "result") =>
        /\ Len(g) = 3
        /\ g[1].state = COMPLETE
        /\ g[1].value_source = "search"
        /\ g[1].breakdown_attempt # Null
        /\ g[2].state = COMPLETE
        /\ g[2].value \in Inputs
        /\ g[2].value_source = "user"
        /\ g[3].state = COMPLETE
        /\ g[3].value_source = "calculation"
        /\ g[3].calculation_result # Null

\* C26: in batch mode a scheduler loop that has been entered is left,
\* whatever the collaborators return or raise.
C26_BatchLoopTerminates ==
    (mode = "batch" /\ pc["sched"] = "sched") ~> (pc["sched"] = "graph_done")

\* C26: the batch scheduler loop has ended with a node Blocked.
C26_Witness ==
    /\ mode = "batch"
    /\ pc["sched"] = "graph_done"
    /\ \E i \in 1..Len(graphs[tg["sched"]]) : graphs[tg["sched"]][i].state = BLOCKED

\* C27: in suspend/resume mode a scheduler loop that has been entered ends
\* with every node Complete, unless a collaborator call raised, the
\* connection failed, or a node is Blocked waiting for user input.
C27_WaitingRunEndsComplete ==
    (mode = "ws" /\ pc["sched"] = "sched") ~>
        LET g == graphs[tg["sched"]] IN
        \/ /\ pc["sched"] = "graph_done"
           /\ \A i \in 1..Len(g) : g[i].state = COMPLETE
        \/ conn # "open"
        \/ \E i \in 1..Len(g) :
              \/ g[i].outcome \in {"search_raised", "breakdown_raised",
                                   "calculation_raised"}
              \/ g[i].state = BLOCKED /\ g[i].gathering_method = ASK_USER

C23_FactsOnlyGrow ==
    [][/\ \A q \in DOMAIN gathered_facts :
             gathered_facts[q] # Null => gathered_facts'[q] # Null
       /\ (pc["sched"] \in {"start", "gen_exp"} /\ pc'["sched"] # pc["sched"])
             => gathered_facts' = gathered_facts]_vars

\* C23: the exploration graph has been generated with a fact known.
C23_Witness ==
    /\ tg["sched"] = "exp"
    /\ pc["sched"] = "sched"
    /\ \E q \in DOMAIN gathered_facts : gathered_facts[q] # Null

\* C24: the step in which the fallback chain returns leaves every graph
\* with the nodes it had, in their order, changes no node but the one it
\* ran for, and gives no task a node to process that it did not have.
C24_FallbackTouchesOnlyTheParent ==
    [][\A t \in Tasks :
          (pc[t] = "breakdown" /\ pc'[t] # "breakdown") =>
              /\ \A gname \in GraphNames :
                    /\ Len(graphs'[gname]) = Len(graphs[gname])
                    /\ \A i \in 1..Len(graphs[gname]) :
                          /\ graphs'[gname][i].id = graphs[gname][i].id
                          /\ (gname # tg[t] \/ i # cur[t])
                                => graphs'[gname][i] = graphs[gname][i]
              /\ \A u \in Tasks :
                    \A k \in 1..Len(ready'[u]) :
                        \E j \in 1..Len(ready[u]) : ready[u][j] = ready'[u][k]]_vars

\* C24: the fallback chain has returned for a node of a graph of two.
C24_Witness ==
    \E t \in Tasks :
        /\ pc[t] = "next"
        /\ cur[t] # 0
        /\ failed_attempt[t] # NoAttempt
        /\ Len(graphs[tg[t]]) = 2

\* C25: in suspend/resume mode the scheduler loop is over only when no node
\* of its graph is ready and none is Searching, Calculating, NeedsBreakdown
\* or Blocked.
C25_LoopEndsAtFixpointOnly ==
    (mode = "ws" /\ pc["sched"] \in {"graph_done", "done", "crashed"}) =>
        /\ ~_has_active_nodes(graphs[tg["sched"]])
        /\ _get_ready_nodes(graphs[tg["sched"]]) = << >>

RECURSIVE Stalled(_, _)
\* Node i of g is Pending behind a node that is Blocked: one of its
\* dependencies is Blocked, or is itself stalled.
Stalled(g, i) ==
    /\ g[i].state = PENDING
    /\ \E dep_id \in g[i].depends_on_ids :
          g[dep_id].state = BLOCKED \/ Stalled(g, dep_id)

\* C32: when the batch scheduler loop has ended, every node of its graph is
\* Complete, or Blocked, or Pending with a dependency that is not Complete
\* and a Blocked node upstream of it.
C32_BatchEndsSettled ==
    (mode = "batch" /\ pc["sched"] = "graph_done") =>
        LET g == graphs[tg["sched"]] IN
        \A i \in 1..Len(g) :
            \/ g[i].state \in {COMPLETE, BLOCKED}
            \/ /\ g[i].state = PENDING
               /\ \E dep_id \in g[i].depends_on_ids : g[dep_id].state # COMPLETE
               /\ Stalled(g, i)

\* C32: the batch loop has ended with a node Blocked and a node Pending
\* behind it.
C32_Witness ==
    /\ mode = "batch"
    /\ pc["sched"] = "graph_done"
    /\ \E i \in 1..Len(graphs[tg["sched"]]) : Stalled(graphs[tg["sched"]], i)

\* C33: a round hands to processing the nodes generated in that round and
\* no others, and adds exactly those to the accumulated nodes, so that no
\* id is accumulated twice.
C33_EachNodeInOneRound ==
    [][rpc = "process" =>
          /\ n_processed' = n_processed + Len(response)
          /\ all_processed_nodes' = all_processed_nodes \o response
          /\ \A i, j \in 1..Len(all_processed_nodes') :
                i # j => all_processed_nodes'[i].id # all_processed_nodes'[j].id]_vars

\* C34: the driver has called generate_graph at most max_depth times, and
\* the call it is in received the facts as they are since the round before
\* and the accumulated nodes, which are the nodes handed to processing in
\* the rounds before.
C34_GenerationCalls ==
    /\ generate_call.calls <= max_depth
    /\ rpc \in {"validate", "process"} =>
          /\ generate_call.calls = depth + 1
          /\ generate_call.known_facts = gathered_facts
          /\ generate_call.explored_nodes = all_processed_nodes
          /\ Len(generate_call.explored_nodes) = n_processed

\* C34: the call of a second round has received a processed node and a
\* fact.
C34_Witness ==
    /\ rpc = "validate"
    /\ generate_call.calls = 2
    /\ generate_call.explored_nodes # << >>
    /\ generate_call.known_facts["q"] # Null

\* C36: once the session's connection is unregistered no task takes a step
\* and no node changes.
C36_NoStepsAfterDisconnect ==
    [][conn = "closed" => (pc' = pc /\ graphs' = graphs)]_vars

\* C37: the generation collaborator is asked for the solution-exploration
\* graph only by a scheduler whose loop over the information-needs graph
\* has ended.
C37_KeyInfoBeforeExploration ==
    [][(pc["sched"] # "gen_exp" /\ pc'["sched"] = "gen_exp") =>
          /\ pc["sched"] = "graph_done"
          /\ tg["sched"] = "key"
          /\ graphs["key"] # << >>]_vars

RECURSIVE SearchedNodes(_, _)
\* The positions from i on of the nodes of new_nodes that carry queries.
SearchedNodes(new_nodes, i) ==
    IF i > Len(new_nodes) THEN << >>
    ELSE IF new_nodes[i] # << >>
         THEN <<i>> \o SearchedNodes(new_nodes, i + 1)
         ELSE SearchedNodes(new_nodes, i + 1)

RECURSIVE FailedQueries(_, _, _)
\* The queries of the nodes the search calls from the k-th on found
\* nothing for, in the order of the calls.
FailedQueries(new_nodes, calls, k) ==
    IF k > Len(calls) THEN << >>
    ELSE (IF calls[k].returned = "empty" THEN new_nodes[calls[k].node] ELSE << >>)
             \o FailedQueries(new_nodes, calls, k + 1)

\* C31: the search calls made by the fallback chain are, in order, one for
\* each sub-node with queries; once the chain has returned, the estimate
\* was called exactly when every search call returned nothing, once, with
\* the parent's failed queries followed by the queries of the failed
\* sub-nodes in their order.
C31_FallbackCalls ==
    LET calls == handler.search_calls
        searched == SearchedNodes(handler.new_nodes, 1)
    IN  /\ Len(calls) <= Len(searched)
        /\ \A k \in 1..Len(calls) : calls[k].node = searched[k]
        /\ handler.pc = "returned" =>
              /\ Len(calls) = Len(searched)
              /\ IF \A k \in 1..Len(calls) : calls[k].returned = "empty"
                 THEN handler.estimate_calls =
                          <<handler.failed_searches
                              \o FailedQueries(handler.new_nodes, calls, 1)>>
                 ELSE handler.estimate_calls = << >>
        /\ handler.estimate_calls # << >> =>
              \A k \in 1..Len(calls) : calls[k].returned = "empty"

\* C31: the chain has returned an estimate after the searches of two
\* sub-nodes found nothing, for a parent that had queries of its own.
C31_Witness ==
    /\ handler.pc = "returned"
    /\ Len(handler.search_calls) = 2
    /\ handler.estimate_calls # << >>
    /\ handler.failed_searches # << >>

C38_FileLockExcludes ==
    \A p, q \in DOMAIN procs : (p # q /\ InLock(p)) => ~InLock(q)

\* C39: every entry whose set call has returned is in the cache file.
C39_StoredEntriesStay ==
    fs.stored \subseteq fs.cache_file

TypeOK ==
    /\ mode \in Modes
    /\ conn \in {"none", "open", "broken", "closed"}
    /\ \A gname \in GraphNames : \A i \in 1..Len(graphs[gname]) :
          graphs[gname][i].state \in NodeState

====
